---- MODULE Spec2Model ----
(***************************************************************************)
(* Model of src/main.py (NBA Props Lab backend): the in-memory TTL cache,  *)
(* the retrying upstream wrapper, the fetch functions built on both, and   *)
(* the dashboard assembly.                                                 *)
(*                                                                         *)
(* Time is counted in tenths of a second, so that the 0.6 s pacing delay   *)
(* of safe_api_call is the integer 6 and a TTL of n seconds is n * 10.     *)
(*                                                                         *)
(* Python values are tagged records: None, a list (a sequence), a dict (a  *)
(* function) or an object (an endpoint instance, always truthy).           *)
(***************************************************************************)
EXTENDS Integers, Sequences, FiniteSets, TLC

VARIABLES
    cache,      \* DataCache.cache: a dict, key -> [data, timestamp]
    now,        \* the wall clock read by datetime.now().timestamp()
    written,    \* history: key -> the latest set(key, ..) since the last clear
    last,       \* the operation that completed last, with what it returned
    steps,      \* number of operations run so far
    build,      \* the build_dashboard_data call in progress: its position
                \* and its local variables
    faults,     \* number of requests a build made after the schedule that
                \* did not simply answer with data on the first attempt
    api,        \* the API: the handler being served and the background
                \* tasks waiting
    dicts,      \* the dict objects DataCache has created, in order
    self_cache, \* the attribute self.cache: which of them it refers to
    th,         \* the worker threads: where each is in get or set, its locals
    handler,    \* the refresh_data handler on the event loop: where it is
    tasks,      \* the background tasks: added, released, started, finished
    made,       \* history: the entries the set calls have made, by key
    seen,       \* history: the call that completed last, with what it saw
    trend       \* TrendAnalyzer: a player's game history, newest first, and
                \* the result of the last analyze of it

raceVars == <<dicts, self_cache, th, handler, tasks, made, seen>>
vars == <<cache, now, written, last, steps, build, faults, api, raceVars, trend>>

(***************************************************************************)
(* Bounds of the model.                                                    *)
(***************************************************************************)
MaxTime == 4
MaxSteps == 3
MaxFaults == 1
MaxBuilds == 1
MaxCalls == 2
MaxRefreshes == 2
MaxHistory == 11

(***************************************************************************)
(* Python values.                                                          *)
(***************************************************************************)
PyNone == [t |-> "None"]
PyList(s) == [t |-> "list", v |-> s]
PyDict(f) == [t |-> "dict", v |-> f]
PyObj(p) == [t |-> "obj", v |-> p]

\* Python truth value testing, as used by `if cached:` and `if roster:`.
Truthy(x) ==
    CASE x.t = "None" -> FALSE
      [] x.t = "list" -> Len(x.v) > 0
      [] x.t = "dict" -> DOMAIN x.v # {}
      [] OTHER -> TRUE

Seconds(n) == n * 10

(***************************************************************************)
(* DataCache                                                               *)
(***************************************************************************)
DataCache_init == <<>>

Fresh_nonstrict(age, ttl_seconds) == age <= ttl_seconds
\* the staleness test of DataCache.get
Fresh(age, ttl_seconds) == age < ttl_seconds

\* lines 168-173: the value returned
DataCache_get(c, key, ttl_seconds, t) ==
    IF key \in DOMAIN c
    THEN LET entry == c[key]
         IN  IF Fresh(t - entry.timestamp, ttl_seconds) THEN entry.data ELSE PyNone
    ELSE PyNone

\* an expired entry is deleted when it is found
DataCache_get_evicts(c, key, ttl_seconds, t) ==
    IF key \in DOMAIN c /\ ~Fresh(t - c[key].timestamp, ttl_seconds)
    THEN [k \in DOMAIN c \ {key} |-> c[k]]
    ELSE c

\* lines 168-173: self.cache after the call; get assigns nothing
DataCache_get_leaves(c, key, ttl_seconds, t) == c

DataCache_set_keeps_timestamp(c, key, data, t) ==
    [k \in DOMAIN c \cup {key} |->
        IF k = key
        THEN [data |-> data,
              timestamp |-> IF key \in DOMAIN c THEN c[key].timestamp ELSE t]
        ELSE c[k]]
DataCache_set(c, key, data, t) ==
    [k \in DOMAIN c \cup {key} |->
        IF k = key THEN [data |-> data, timestamp |-> t] ELSE c[k]]

DataCache_clear_keeps_entries(c) == c
DataCache_clear(c) == <<>>

(***************************************************************************)
(* safe_api_call                                                           *)
(*                                                                         *)
(* `fails` is the number of consecutive attempts on which the upstream     *)
(* function raises before it would answer with `resp`. The result tells    *)
(* whether the call returned or raised, how many times the upstream was    *)
(* invoked, the time slept, the clock offsets of the attempts, and which   *)
(* of the upstream's failures, counted from 1, the bare `raise` passed on. *)
(***************************************************************************)
max_retries_four == 3 + 1

max_retries == 3
PacingDelay == 6

RECURSIVE Pow2(_)
Pow2(n) == IF n = 0 THEN 1 ELSE 2 * Pow2(n - 1)

Backoff_constant(attempt) == Seconds(1)

\* time.sleep(2 ** attempt)
Backoff(attempt) == Seconds(Pow2(attempt))

Paced_not(elapsed) == elapsed

\* time.sleep(0.6) ahead of every attempt
Paced(elapsed) == elapsed + PacingDelay

RECURSIVE safe_api_call_loop(_, _, _, _, _)
safe_api_call_loop(attempt, fails, resp, elapsed, at) ==
    IF attempt >= max_retries
    THEN [raised |-> FALSE, value |-> PyNone, invocations |-> attempt,
          elapsed |-> elapsed, at |-> at, error |-> 0]
    ELSE LET called == Paced(elapsed)
         IN  IF attempt >= fails
             THEN [raised |-> FALSE, value |-> resp, invocations |-> attempt + 1,
                   elapsed |-> called, at |-> Append(at, called), error |-> 0]
             ELSE IF attempt = max_retries - 1
             THEN [raised |-> TRUE, value |-> PyNone, invocations |-> attempt + 1,
                   elapsed |-> called, at |-> Append(at, called), error |-> attempt + 1]
             ELSE safe_api_call_loop(attempt + 1, fails, resp,
                                     called + Backoff(attempt), Append(at, called))

safe_api_call(fails, resp) == safe_api_call_loop(0, fails, resp, 0, <<>>)

(***************************************************************************)
(* The history the cache claims are stated against: what the callers did,  *)
(* recorded independently of the dict the cache keeps.                     *)
(***************************************************************************)
Written_set(w, key, data, t) ==
    [k \in DOMAIN w \cup {key} |-> IF k = key THEN [v |-> data, at |-> t] ELSE w[k]]

\* `before` is the dict as the operation found it, `started` the clock then,
\* `calls` the fetch functions the operation called, in order, `arg` the
\* upstream a direct safe_api_call was given.
NoOp == [op |-> "none", key |-> "", ttl |-> 0, ret |-> PyNone, io |-> <<>>,
         src |-> "", raised |-> FALSE, started |-> 0, ended |-> 0, before |-> <<>>,
         calls |-> <<>>, arg |-> <<>>]

(***************************************************************************)
(* Direct use of the cache: the inputs of the cache-level specification.   *)
(***************************************************************************)
CacheKeys == {"todays_games", "dashboard_data"}
CacheVals == {PyList(<<>>), PyList(<<1>>), PyList(<<2>>)}
CacheTtls == {1, 2, 3}

CacheSet(key, data) ==
    /\ cache' = DataCache_set(cache, key, data, now)
    /\ written' = Written_set(written, key, data, now)
    /\ last' = [NoOp EXCEPT !.op = "set", !.key = key, !.ret = data, !.started = now,
                            !.ended = now,
                            !.before = cache]
    /\ UNCHANGED now

CacheGet(key, ttl_seconds) ==
    /\ last' = [NoOp EXCEPT !.op = "get", !.key = key, !.ttl = ttl_seconds,
                            !.ret = DataCache_get(cache, key, ttl_seconds, now),
                            !.started = now, !.ended = now, !.before = cache]
    /\ cache' = DataCache_get_leaves(cache, key, ttl_seconds, now)
    /\ UNCHANGED <<now, written>>

CacheClear ==
    /\ cache' = DataCache_clear(cache)
    /\ written' = <<>>
    /\ last' = [NoOp EXCEPT !.op = "clear", !.started = now, !.ended = now,
                            !.before = cache]
    /\ UNCHANGED now

\* the clock advances by one tenth of a second
Tick ==
    /\ now < MaxTime
    /\ now' = now + 1
    /\ UNCHANGED <<cache, written, last>>

(***************************************************************************)
(* Threads. A background task that is a plain function runs on a worker    *)
(* thread while the event loop goes on serving handlers, so the statements *)
(* of DataCache.get and DataCache.set of a background build interleave    *)
(* with each other and with those of refresh_data. Here self.cache is a    *)
(* reference to one of the dict objects and each step is one access to it. *)
(***************************************************************************)
Workers == {"w1", "w2"}

NoEntry == [data |-> PyNone, timestamp |-> 0]
ThreadIdle == [pc |-> "idle", i |-> 0, entry |-> NoEntry]
HandlerIdle == [pc |-> "idle", before |-> <<>>, unfinished |-> 0]
NothingSeen == [op |-> "none", by |-> "", key |-> "", entry |-> NoEntry, ret |-> PyNone,
                raised |-> FALSE, n |-> 0, started |-> 0, cache |-> <<>>,
                before |-> <<>>, unfinished |-> 0]

\* no game recorded, nothing analysed
NoResult == [trend |-> "none"]
NoTrend == [history |-> <<>>, statKey |-> "pts", result |-> NoResult]

InitThreads ==
    /\ dicts = <<DataCache_init>>
    /\ self_cache = 1
    /\ th = [w \in Workers |-> ThreadIdle]
    /\ handler = HandlerIdle
    /\ tasks = [added |-> 0, released |-> 0, started |-> 0, finished |-> 0]
    /\ made = {}
    /\ seen = NothingSeen

Init ==
    /\ InitThreads
    /\ trend = NoTrend
    /\ cache = DataCache_init
    /\ now = 0
    /\ written = <<>>
    /\ last = NoOp
    /\ steps = 0
    /\ build = [pc |-> "idle"]
    /\ faults = 0
    /\ api = [serving |-> "none", pending |-> 0, calls |-> 0, started |-> 0,
              before |-> <<>>]

NextCache ==
    /\ UNCHANGED <<steps, build, faults, api, raceVars, trend>>
    /\ \/ \E key \in CacheKeys, data \in CacheVals : CacheSet(key, data)
       \/ \E key \in CacheKeys, ttl_seconds \in CacheTtls : CacheGet(key, ttl_seconds)
       \/ CacheClear
       \/ Tick

SpecCache == Init /\ [][NextCache]_vars

(***************************************************************************)
(* DATA FETCHING FUNCTIONS                                                 *)
(*                                                                         *)
(* Each fetch function is an operator of the dict `c` and the clock `t` it *)
(* starts with and of what the upstream does on its requests. It yields    *)
(* the dict and the clock it ends with, the value it returns, the          *)
(* safe_api_calls it made in order (`io`), where the returned value came   *)
(* from (`src`), whether it called cache.set (`wrote`) and whether an      *)
(* exception left it (`raised`): each request sits in a try/except.        *)
(*                                                                         *)
(* An upstream request is [fails, resp]: the endpoint raises on the first  *)
(* `fails` attempts and then answers `resp`. Of the pass-through fields of *)
(* the records only those the assembly reads are kept.                     *)
(***************************************************************************)
FetchResult(c, t, ret, io, src, wrote) ==
    [cache |-> c, now |-> t, ret |-> ret, io |-> io, src |-> src, wrote |-> wrote,
     raised |-> FALSE]

\* The record of one safe_api_call made at clock t: the endpoint, whether the
\* call raised, the upstream invocations with their times, and the answer.
Req(endpoint, r, t) ==
    [endpoint |-> endpoint, raised |-> r.raised, invocations |-> r.invocations,
     at |-> [i \in 1..Len(r.at) |-> t + r.at[i]], resp |-> r.value,
     error |-> r.error]

SeqMap(F(_), s) == [i \in 1..Len(s) |-> F(s[i])]

TTL_GAMES == 120
TTL_ROSTER == 3600
TTL_STATS == 600
TTL_LAST5 == 600
TTL_SPLITS == 1800
TTL_TRACKING == 1800
TTL_HUSTLE == 1800

\* `if cached:` - the truth value of what cache.get returned
CacheHit(cached) == Truthy(cached)

\* lines 234-242: one game of the live scoreboard
LiveGame(game) ==
    [gameId |-> game.gameId,
     homeTeamId |-> game.homeTeam.teamId,
     awayTeamId |-> game.awayTeam.teamId,
     homeScore |-> game.homeTeam.score,
     awayScore |-> game.awayTeam.score]

\* lines 256-262: one row of the stats scoreboard's game header
HeaderGame(row) ==
    [gameId |-> row.GAME_ID,
     homeTeamId |-> row.HOME_TEAM_ID,
     awayTeamId |-> row.VISITOR_TEAM_ID]

fetch_todays_games_fallback_no_default(c, t, io, stats) ==
    LET r == safe_api_call(stats.fails, PyObj(stats.resp))
        t2 == t + r.elapsed
        n == Append(io, Req("ScoreboardV2", r, t))
    IN  IF ~r.raised /\ Truthy(r.value)
        THEN LET games == PyList(SeqMap(HeaderGame, r.value.v))
             IN  FetchResult(DataCache_set(c, "todays_games", games, t2), t2, games,
                             n, "stats", TRUE)
        ELSE FetchResult(c, t2, PyNone, n, "default", FALSE)
\* lines 249-268: the stats scoreboard, tried after the live one
fetch_todays_games_fallback(c, t, io, stats) ==
    LET r == safe_api_call(stats.fails, PyObj(stats.resp))
        t2 == t + r.elapsed
        n == Append(io, Req("ScoreboardV2", r, t))
    IN  IF ~r.raised /\ Truthy(r.value)
        THEN LET games == PyList(SeqMap(HeaderGame, r.value.v))
             IN  FetchResult(DataCache_set(c, "todays_games", games, t2), t2, games,
                             n, "stats", TRUE)
        ELSE FetchResult(c, t2, PyList(<<>>), n, "default", FALSE)

LiveUsable_ignores_games(r) == ~r.raised /\ Truthy(r.value)
\* line 230: `if scoreboard and scoreboard.games`
LiveUsable(r) == ~r.raised /\ Truthy(r.value) /\ Truthy(PyList(r.value.v))

fetch_todays_games(c, t, live, stats) ==
    LET cache_key == "todays_games"
        cached == DataCache_get(c, cache_key, Seconds(TTL_GAMES), t)
    IN  IF CacheHit(cached)
        THEN FetchResult(c, t, cached, <<>>, "cache", FALSE)
        ELSE LET r == safe_api_call(live.fails, PyObj(live.resp))
                 t1 == t + r.elapsed
                 io == <<Req("LiveScoreBoard", r, t)>>
             IN  IF LiveUsable(r)
                 THEN LET games == PyList(SeqMap(LiveGame, r.value.v))
                      IN  FetchResult(DataCache_set(c, cache_key, games, t1), t1,
                                      games, io, "live", TRUE)
                 ELSE fetch_todays_games_fallback(c, t1, io, stats)

roster_key(team_id) == "roster_" \o ToString(team_id)

\* lines 284-291: one row of the team roster
RosterPlayer(row) ==
    [id |-> row.PLAYER_ID, name |-> row.PLAYER, position |-> row.POSITION]

fetch_team_roster_no_store(c, t, team_id, up) ==
    LET cached == DataCache_get(c, roster_key(team_id), Seconds(TTL_ROSTER), t)
        r == safe_api_call(up.fails, PyObj(up.resp))
    IN  IF CacheHit(cached)
        THEN FetchResult(c, t, cached, <<>>, "cache", FALSE)
        ELSE FetchResult(c, t + r.elapsed,
                         PyList(IF r.raised THEN <<>> ELSE SeqMap(RosterPlayer, r.value.v)),
                         <<Req("CommonTeamRoster", r, t)>>,
                         IF r.raised THEN "default" ELSE "upstream", FALSE)
fetch_team_roster(c, t, team_id, up) ==
    LET cache_key == roster_key(team_id)
        cached == DataCache_get(c, cache_key, Seconds(TTL_ROSTER), t)
    IN  IF CacheHit(cached)
        THEN FetchResult(c, t, cached, <<>>, "cache", FALSE)
        ELSE LET r == safe_api_call(up.fails, PyObj(up.resp))
                 t1 == t + r.elapsed
             IN  IF ~r.raised /\ Truthy(r.value)
                 THEN LET players_list == PyList(SeqMap(RosterPlayer, r.value.v))
                      IN  FetchResult(DataCache_set(c, cache_key, players_list, t1), t1,
                                      players_list, <<Req("CommonTeamRoster", r, t)>>, "upstream", TRUE)
                 ELSE FetchResult(c, t1, PyList(<<>>), <<Req("CommonTeamRoster", r, t)>>, "default", FALSE)

stats_key(player_id) == "player_stats_" \o ToString(player_id)
last5_key(player_id) == "player_last5_" \o ToString(player_id)
splits_key(player_id) == "player_splits_" \o ToString(player_id)

\* lines 307-310
DefaultStats ==
    [pts |-> 0, reb |-> 0, ast |-> 0, stl |-> 0, blk |-> 0,
     fg_pct |-> 0, fg3_pct |-> 0, ft_pct |-> 0, min |-> 0]

\* lines 322-332: the first row of the overall dashboard
StatsOfRow(row) ==
    [pts |-> row.PTS, reb |-> row.REB, ast |-> row.AST, stl |-> row.STL,
     blk |-> row.BLK, fg_pct |-> row.FG_PCT, fg3_pct |-> row.FG3_PCT,
     ft_pct |-> row.FT_PCT, min |-> row.MIN]

fetch_player_stats_stores_default(c, t, player_id, team_id, up) ==
    LET cache_key == stats_key(player_id)
        cached == DataCache_get(c, cache_key, Seconds(TTL_STATS), t)
    IN  IF CacheHit(cached)
        THEN FetchResult(c, t, cached, <<>>, "cache", FALSE)
        ELSE LET r == safe_api_call(up.fails, PyObj(up.resp))
                 t1 == t + r.elapsed
                 overall == IF ~r.raised /\ Truthy(r.value) THEN r.value.v.overall ELSE <<>>
                 stats == PyDict(IF Len(overall) > 0
                                 THEN StatsOfRow(overall[1])
                                 ELSE DefaultStats)
             IN  FetchResult(DataCache_set(c, cache_key, stats, t1), t1, stats,
                             <<Req("PlayerDashboardByGeneralSplits", r, t)>>,
                             IF r.raised THEN "default" ELSE "upstream", TRUE)

fetch_player_stats(c, t, player_id, team_id, up) ==
    LET cache_key == stats_key(player_id)
        cached == DataCache_get(c, cache_key, Seconds(TTL_STATS), t)
    IN  IF CacheHit(cached)
        THEN FetchResult(c, t, cached, <<>>, "cache", FALSE)
        ELSE LET r == safe_api_call(up.fails, PyObj(up.resp))
                 t1 == t + r.elapsed
             IN  IF r.raised
                 THEN FetchResult(c, t1, PyDict(DefaultStats), <<Req("PlayerDashboardByGeneralSplits", r, t)>>,
                                  "default", FALSE)
                 ELSE LET overall == IF Truthy(r.value) THEN r.value.v.overall ELSE <<>>
                          stats == PyDict(IF Len(overall) > 0
                                          THEN StatsOfRow(overall[1])
                                          ELSE DefaultStats)
                      IN  FetchResult(DataCache_set(c, cache_key, stats, t1), t1, stats,
                                      <<Req("PlayerDashboardByGeneralSplits", r, t)>>, "upstream", TRUE)

\* lines 358-363: one row of the game log
Last5Game(row) ==
    [game |-> row.MATCHUP, pts |-> row.PTS, reb |-> row.REB, ast |-> row.AST]

df_head_all(df, n) == df

\* df.head(5)
df_head(df, n) == SubSeq(df, 1, IF Len(df) < n THEN Len(df) ELSE n)

\* the except clause (lines 365-366) left out: the exception leaves the function
fetch_player_last5_raises(c, t, player_id, up) ==
    LET cache_key == last5_key(player_id)
        cached == DataCache_get(c, cache_key, Seconds(TTL_LAST5), t)
        r == safe_api_call(up.fails, PyObj(up.resp))
        t1 == t + r.elapsed
        last5 == PyList(IF Truthy(r.value) THEN SeqMap(Last5Game, df_head(r.value.v, 5))
                        ELSE <<>>)
    IN  IF CacheHit(cached) THEN FetchResult(c, t, cached, <<>>, "cache", FALSE)
        ELSE IF r.raised
        THEN [FetchResult(c, t1, PyList(<<>>), <<Req("PlayerGameLog", r, t)>>, "none", FALSE)
                  EXCEPT !.raised = TRUE]
        ELSE FetchResult(DataCache_set(c, cache_key, last5, t1), t1, last5,
                         <<Req("PlayerGameLog", r, t)>>, "upstream", TRUE)

fetch_player_last5(c, t, player_id, up) ==
    LET cache_key == last5_key(player_id)
        cached == DataCache_get(c, cache_key, Seconds(TTL_LAST5), t)
    IN  IF CacheHit(cached)
        THEN FetchResult(c, t, cached, <<>>, "cache", FALSE)
        ELSE LET r == safe_api_call(up.fails, PyObj(up.resp))
                 t1 == t + r.elapsed
             IN  IF r.raised
                 THEN FetchResult(c, t1, PyList(<<>>), <<Req("PlayerGameLog", r, t)>>, "default", FALSE)
                 ELSE LET last5 == PyList(IF Truthy(r.value)
                                          THEN SeqMap(Last5Game, df_head(r.value.v, 5))
                                          ELSE <<>>)
                      IN  FetchResult(DataCache_set(c, cache_key, last5, t1), t1, last5,
                                      <<Req("PlayerGameLog", r, t)>>, "upstream", TRUE)

\* lines 378-382
DefaultSplits ==
    [home |-> [pts |-> 0, reb |-> 0],
     away |-> [pts |-> 0, reb |-> 0],
     vsConf |-> [pts |-> 0, reb |-> 0]]

\* lines 392-403: the loop over the location rows, from row i on
RECURSIVE LocationSplits(_, _, _)
LocationSplits(splits, location_df, i) ==
    IF i > Len(location_df)
    THEN splits
    ELSE LET row == location_df[i]
             loc == row.GROUP_VALUE
             val == [pts |-> row.PTS, reb |-> row.REB]
         IN  LocationSplits(
                 IF loc = "Home" THEN [splits EXCEPT !.home = val]
                 ELSE IF loc = "Road" THEN [splits EXCEPT !.away = val]
                 ELSE splits,
                 location_df, i + 1)

\* lines 406-415: the conference splits, an optional part whose failure is
\* swallowed
ConferenceSplits(splits, vs_conference) ==
    IF ~vs_conference.raises /\ Len(vs_conference.rows) > 0
    THEN [splits EXCEPT !.vsConf = [pts |-> vs_conference.rows[1].PTS,
                                    reb |-> vs_conference.rows[1].REB]]
    ELSE splits

fetch_player_splits(c, t, player_id, up) ==
    LET cache_key == splits_key(player_id)
        cached == DataCache_get(c, cache_key, Seconds(TTL_SPLITS), t)
    IN  IF CacheHit(cached)
        THEN FetchResult(c, t, cached, <<>>, "cache", FALSE)
        ELSE LET r == safe_api_call(up.fails, PyObj(up.resp))
                 t1 == t + r.elapsed
             IN  IF r.raised
                 THEN FetchResult(c, t1, PyDict(DefaultSplits), <<Req("PlayerDashboardByGeneralSplits", r, t)>>,
                                  "default", FALSE)
                 ELSE LET splits ==
                              PyDict(IF Truthy(r.value)
                                     THEN ConferenceSplits(
                                              LocationSplits(DefaultSplits,
                                                             r.value.v.location, 1),
                                              r.value.v.vs_conference)
                                     ELSE DefaultSplits)
                      IN  FetchResult(DataCache_set(c, cache_key, splits, t1), t1, splits,
                                      <<Req("PlayerDashboardByGeneralSplits", r, t)>>, "upstream", TRUE)

\* dict.update, and d1 | d2
DictUpdate(d, e) ==
    [k \in DOMAIN d \cup DOMAIN e |-> IF k \in DOMAIN e THEN e[k] ELSE d[k]]

\* The fields one row of a tracking measure contributes (lines 448-451,
\* 472-475, 496-497, 518-519).
MeasureFields(measure, row) ==
    CASE measure = "Passing" ->
            [passes |-> row.PASSES_MADE, potential_ast |-> row.POTENTIAL_AST,
             ast |-> row.AST, ast_pts_created |-> row.AST_PTS_CREATED]
      [] measure = "Rebounding" ->
            [reb_chances |-> row.REB_CHANCES, reb |-> row.REB,
             contested_reb |-> row.REB_CONTEST, uncontested_reb |-> row.REB_UNCONTEST]
      [] measure = "SpeedDistance" ->
            [speed |-> row.AVG_SPEED, distance |-> row.DIST_MILES]
      [] measure = "Possessions" ->
            [touches |-> row.TOUCHES, time_of_poss |-> row.TIME_OF_POSS]

\* The loop over the rows of one measure, from row i on: rows without a
\* player id are skipped; Passing assigns the player's dict, the other
\* measures update it.
RECURSIVE MeasureRows(_, _, _, _)
MeasureRows(tracking_data, measure, df, i) ==
    IF i > Len(df)
    THEN tracking_data
    ELSE LET row == df[i]
             player_id == row.PLAYER_ID
             old == IF measure # "Passing" /\ player_id \in DOMAIN tracking_data
                    THEN tracking_data[player_id]
                    ELSE <<>>
             entry == DictUpdate(old, MeasureFields(measure, row))
         IN  MeasureRows(
                 IF player_id # 0
                 THEN [p \in DOMAIN tracking_data \cup {player_id} |->
                          IF p = player_id THEN entry ELSE tracking_data[p]]
                 ELSE tracking_data,
                 measure, df, i + 1)

Measures == <<"Passing", "Rebounding", "SpeedDistance", "Possessions">>

\* lines 433-526: the four requests in turn, from measure i on, with a pause
\* of 0.6 s after each but the last; the result is stored only after the
\* fourth answered, and an exception in any of them returns what was
\* gathered so far.
RECURSIVE fetch_tracking_measures(_, _, _, _, _, _)
fetch_tracking_measures(c, t, tracking_data, io, ups, i) ==
    LET r == safe_api_call(ups[i].fails, PyObj(ups[i].resp))
        t1 == t + r.elapsed
        n == Append(io, Req("LeagueDashPtStats", r, t))
        data == IF ~r.raised /\ Truthy(r.value)
                THEN MeasureRows(tracking_data, Measures[i], r.value.v, 1)
                ELSE tracking_data
    IN  IF r.raised
        THEN FetchResult(c, t1, PyDict(tracking_data), n,
                         IF i = 1 THEN "default" ELSE "partial", FALSE)
        ELSE IF i < Len(Measures)
        THEN fetch_tracking_measures(c, t1 + PacingDelay, data, n, ups, i + 1)
        ELSE FetchResult(DataCache_set(c, "tracking_stats", PyDict(data), t1), t1,
                         PyDict(data), n, "upstream", TRUE)

fetch_tracking_stats(c, t, ups) ==
    LET cache_key == "tracking_stats"
        cached == DataCache_get(c, cache_key, Seconds(TTL_TRACKING), t)
    IN  IF CacheHit(cached)
        THEN FetchResult(c, t, cached, <<>>, "cache", FALSE)
        ELSE fetch_tracking_measures(c, t, <<>>, <<>>, ups, 1)

\* lines 549-555: one row of the hustle statistics
HustleFields(row) ==
    [contested_shots |-> row.CONTESTED_SHOTS, deflections |-> row.DEFLECTIONS,
     loose_balls |-> row.LOOSE_BALLS_RECOVERED, screen_assists |-> row.SCREEN_ASSISTS,
     charges_drawn |-> row.CHARGES_DRAWN]

RECURSIVE HustleRows(_, _, _)
HustleRows(hustle_data, df, i) ==
    IF i > Len(df)
    THEN hustle_data
    ELSE LET player_id == df[i].PLAYER_ID
         IN  HustleRows(
                 IF player_id # 0
                 THEN [p \in DOMAIN hustle_data \cup {player_id} |->
                          IF p = player_id THEN HustleFields(df[i]) ELSE hustle_data[p]]
                 ELSE hustle_data,
                 df, i + 1)

fetch_hustle_stats(c, t, up) ==
    LET cache_key == "hustle_stats"
        cached == DataCache_get(c, cache_key, Seconds(TTL_HUSTLE), t)
    IN  IF CacheHit(cached)
        THEN FetchResult(c, t, cached, <<>>, "cache", FALSE)
        ELSE LET r == safe_api_call(up.fails, PyObj(up.resp))
                 t1 == t + r.elapsed
             IN  IF r.raised
                 THEN FetchResult(c, t1, PyDict(<<>>), <<Req("LeagueHustleStatsPlayer", r, t)>>, "default", FALSE)
                 ELSE LET hustle_data == PyDict(IF Truthy(r.value)
                                                THEN HustleRows(<<>>, r.value.v, 1)
                                                ELSE <<>>)
                      IN  FetchResult(DataCache_set(c, cache_key, hustle_data, t1), t1,
                                      hustle_data, <<Req("LeagueHustleStatsPlayer", r, t)>>, "upstream", TRUE)

(***************************************************************************)
(* What the upstream may answer: the inputs of the fetch functions.        *)
(***************************************************************************)
Teams == {1, 2}
Players == {11, 12, 21}

\* the upstream answers the first attempt, or recovers on a retry, or fails
\* every attempt
FailCounts == {0, 1, max_retries}

Requests(resps) ==
    {[fails |-> f, resp |-> r] : f \in FailCounts \ {max_retries}, r \in resps}
        \cup {[fails |-> max_retries, resp |-> <<>>]}

LiveTeam(team_id) == [teamId |-> team_id, score |-> 0]
LiveGameOf(id, home, away) ==
    [gameId |-> id, homeTeam |-> LiveTeam(home), awayTeam |-> LiveTeam(away)]
\* no game; one game; three games: a team in two of them, one without an
\* away team
LiveResponses ==
    {<<>>,
     <<LiveGameOf("L1", 1, 2)>>,
     <<LiveGameOf("L1", 1, 2), LiveGameOf("L2", 2, 1),
       LiveGameOf("L3", 3, 0)>>}

HeaderRow(id, home, away) ==
    [GAME_ID |-> id, HOME_TEAM_ID |-> home, VISITOR_TEAM_ID |-> away]
StatsResponses == {<<>>, <<HeaderRow("S1", 1, 2)>>}

RosterRow(player_id) ==
    [PLAYER_ID |-> player_id, PLAYER |-> "P" \o ToString(player_id), POSITION |-> "G"]
\* no row; the team's players, for team 1 with a row that has no player id,
\* for the others nine rows, of which only the eighth and the ninth have one
RosterResponses(team_id) ==
    {<<>>,
     IF team_id = 1 THEN <<RosterRow(11), RosterRow(0), RosterRow(12)>>
                        ELSE [i \in 1..9 |-> RosterRow(IF i = 8 THEN 21
                                                       ELSE IF i = 9 THEN 22 ELSE 0)]}

OverallRow(player_id) ==
    [PTS |-> player_id, REB |-> 5, AST |-> 3, STL |-> 1, BLK |-> 1,
     FG_PCT |-> 45, FG3_PCT |-> 35, FT_PCT |-> 80, MIN |-> 30]
LocationRow(loc, pts) == [GROUP_VALUE |-> loc, PTS |-> pts, REB |-> 4]
\* a dashboard without rows whose conference part raises; a full one
DashboardResponses(player_id) ==
    {[overall |-> <<>>, location |-> <<>>,
      vs_conference |-> [raises |-> TRUE, rows |-> <<>>]],
     [overall |-> <<OverallRow(player_id)>>,
      location |-> <<LocationRow("Home", 20), LocationRow("Road", 18)>>,
      vs_conference |-> [raises |-> FALSE, rows |-> <<LocationRow("East", 19)>>]]}

LogRow(i) == [MATCHUP |-> "G" \o ToString(i), PTS |-> 10 + i, REB |-> i, AST |-> i]
\* game logs of 0, 2 and 6 games, newest first
GameLogResponses == {<<>>, [i \in 1..2 |-> LogRow(i)], [i \in 1..6 |-> LogRow(i)]}

MeasureRow(measure, player_id) ==
    CASE measure = "Passing" ->
            [PLAYER_ID |-> player_id, PASSES_MADE |-> 40, POTENTIAL_AST |-> 9,
             AST |-> 5, AST_PTS_CREATED |-> 12]
      [] measure = "Rebounding" ->
            [PLAYER_ID |-> player_id, REB_CHANCES |-> 8, REB |-> 5,
             REB_CONTEST |-> 2, REB_UNCONTEST |-> 3]
      [] measure = "SpeedDistance" ->
            [PLAYER_ID |-> player_id, AVG_SPEED |-> 4, DIST_MILES |-> 2]
      [] measure = "Possessions" ->
            [PLAYER_ID |-> player_id, TOUCHES |-> 60, TIME_OF_POSS |-> 3]
\* The four measure requests: all answer without rows or all with a row for
\* player 11 (Rebounding also with a row without a player id); the request
\* `failAt`, if any, fails every attempt; the first request may need a retry.
TrackingRequests ==
    {[i \in 1..4 |->
        [fails |-> IF i = failAt THEN max_retries ELSE IF i = 1 THEN f ELSE 0,
         resp |-> IF ~rows THEN <<>>
                  ELSE IF i = 2
                  THEN <<MeasureRow(Measures[i], 0), MeasureRow(Measures[i], 11)>>
                  ELSE <<MeasureRow(Measures[i], 11)>>]] :
        failAt \in 0..4, f \in FailCounts \ {max_retries}, rows \in BOOLEAN}

HustleRow(player_id) ==
    [PLAYER_ID |-> player_id, CONTESTED_SHOTS |-> 6, DEFLECTIONS |-> 2,
     LOOSE_BALLS_RECOVERED |-> 1, SCREEN_ASSISTS |-> 1, CHARGES_DRAWN |-> 0]
HustleResponses == {<<>>, <<HustleRow(11), HustleRow(0)>>}

(***************************************************************************)
(* safe_api_call on its own, given an upstream function that raises on    *)
(* its first `fails` invocations and then answers; it may go on failing    *)
(* beyond the last attempt.                                                *)
(***************************************************************************)
Upstreams ==
    {[fails |-> f, resp |-> r] : f \in 0..(max_retries + 1), r \in GameLogResponses}

SafeApiCall(up) ==
    \E r \in {safe_api_call(up.fails, PyObj(up.resp))} :
        /\ now' = now + r.elapsed
        /\ last' = [NoOp EXCEPT !.op = "safe_api_call", !.arg = up, !.ret = r.value,
                                !.raised = r.raised,
                                !.io = <<Req("PlayerGameLog", r, now)>>,
                                !.started = now, !.ended = now']
        /\ UNCHANGED <<cache, written>>

NextCall ==
    /\ steps < MaxSteps
    /\ steps' = steps + 1
    /\ UNCHANGED <<build, faults, api, raceVars, trend>>
    /\ \E up \in Upstreams : SafeApiCall(up)

SpecCall == Init /\ [][NextCall]_vars

(***************************************************************************)
(* The fetch functions as operations of the running program.              *)
(***************************************************************************)
\* what a completed fetch leaves behind
Fetched(op, key, ttl, res) ==
    /\ cache' = res.cache
    /\ now' = res.now
    /\ written' = IF res.wrote THEN Written_set(written, key, res.ret, res.now)
                  ELSE written
    /\ last' = [NoOp EXCEPT !.op = op, !.key = key, !.ttl = ttl, !.ret = res.ret,
                            !.io = res.io, !.src = res.src, !.raised = res.raised,
                            !.started = now, !.ended = res.now, !.before = cache]

FetchTodaysGames ==
    \E live \in Requests(LiveResponses), stats \in Requests(StatsResponses) :
        \E res \in {fetch_todays_games(cache, now, live, stats)} :
            Fetched("fetch_todays_games", "todays_games", Seconds(TTL_GAMES), res)

FetchTeamRoster(team_id) ==
    \E up \in Requests(RosterResponses(team_id)) :
        \E res \in {fetch_team_roster(cache, now, team_id, up)} :
            Fetched("fetch_team_roster", roster_key(team_id), Seconds(TTL_ROSTER), res)

FetchPlayerStats(player_id) ==
    \E up \in Requests(DashboardResponses(player_id)) :
        \E res \in {fetch_player_stats(cache, now, player_id, 0, up)} :
            Fetched("fetch_player_stats", stats_key(player_id), Seconds(TTL_STATS), res)

FetchPlayerLast5(player_id) ==
    \E up \in Requests(GameLogResponses) :
        \E res \in {fetch_player_last5(cache, now, player_id, up)} :
            Fetched("fetch_player_last5", last5_key(player_id), Seconds(TTL_LAST5), res)

FetchPlayerSplits(player_id) ==
    \E up \in Requests(DashboardResponses(player_id)) :
        \E res \in {fetch_player_splits(cache, now, player_id, up)} :
            Fetched("fetch_player_splits", splits_key(player_id), Seconds(TTL_SPLITS), res)

FetchTrackingStats ==
    \E ups \in TrackingRequests :
        \E res \in {fetch_tracking_stats(cache, now, ups)} :
            Fetched("fetch_tracking_stats", "tracking_stats", Seconds(TTL_TRACKING), res)

FetchHustleStats ==
    \E up \in Requests(HustleResponses) :
        \E res \in {fetch_hustle_stats(cache, now, up)} :
            Fetched("fetch_hustle_stats", "hustle_stats", Seconds(TTL_HUSTLE), res)

\* time passes between two operations: the length of one of the TTLs
WaitSteps == {Seconds(TTL_GAMES), Seconds(TTL_STATS), Seconds(TTL_SPLITS),
              Seconds(TTL_ROSTER)}
Wait(d) ==
    /\ now' = now + d
    /\ UNCHANGED <<cache, written, last>>

\* A run of the fetch-level specification calls one fetch function, again
\* and again, until the cache is cleared; it is MaxSteps operations long.
Calling(op) == last.op \in {"none", "clear", op}

NextFetch ==
    /\ steps < MaxSteps
    /\ steps' = steps + 1
    /\ UNCHANGED <<build, faults, api, raceVars, trend>>
    /\ \/ Calling("fetch_todays_games") /\ FetchTodaysGames
       \/ Calling("fetch_team_roster") /\ \E team_id \in Teams : FetchTeamRoster(team_id)
       \/ Calling("fetch_player_stats") /\ \E player_id \in {11} : FetchPlayerStats(player_id)
       \/ Calling("fetch_player_last5") /\ \E player_id \in {11} : FetchPlayerLast5(player_id)
       \/ Calling("fetch_player_splits") /\ \E player_id \in {11} : FetchPlayerSplits(player_id)
       \/ Calling("fetch_tracking_stats") /\ FetchTrackingStats
       \/ Calling("fetch_hustle_stats") /\ FetchHustleStats
       \/ CacheClear
       \/ \E d \in WaitSteps : Wait(d)

SpecFetch == Init /\ [][NextFetch]_vars

(***************************************************************************)
(* MAIN DATA AGGREGATION: build_dashboard_data                             *)
(*                                                                         *)
(* The build runs as a sequence of steps, one per fetch function it calls, *)
(* in the order of the code; nothing else runs while it does. Its local    *)
(* variables live in `build`. Of a player's entry the generated prop lines *)
(* and the tracking defaults with fractional factors are left out: they    *)
(* are functions of `stats` that nothing reads back.                       *)
(***************************************************************************)
\* lines 619-642: the loop over games_raw, from game i on
RECURSIVE GamesLoop(_, _, _, _)
GamesLoop(games_raw, i, games, team_ids) ==
    IF i > Len(games_raw)
    THEN [games |-> games, team_ids |-> team_ids]
    ELSE LET game == games_raw[i]
             home_id == game.homeTeamId
             away_id == game.awayTeamId
         IN  IF home_id = 0 \/ away_id = 0
             THEN GamesLoop(games_raw, i + 1, games, team_ids)
             ELSE GamesLoop(games_raw, i + 1,
                            Append(games, [gameId |-> game.gameId,
                                           homeTeamId |-> home_id,
                                           awayTeamId |-> away_id]),
                            team_ids \cup {home_id, away_id})

TopPlayersLimit == 8
TopPlayers_whole_roster(roster) == roster

\* line 650: roster[:8]
TopPlayers(roster) ==
    SubSeq(roster, 1, IF Len(roster) < TopPlayersLimit THEN Len(roster)
                      ELSE TopPlayersLimit)

\* lines 653-655: players without an id are passed over
RECURSIVE SkipNoId(_)
SkipNoId(players) ==
    IF players # <<>> /\ players[1].id = 0 THEN SkipNoId(Tail(players)) ELSE players

\* dict.get(key, default) on a dict of the model
DictGet(d, key, default) == IF key \in DOMAIN d THEN d[key] ELSE default

PlaceholderGame == [game |-> "N/A", pts |-> 0, reb |-> 0, ast |-> 0]

\* line 691: `last5 if last5 else [placeholder] * 5`
Last5OrPlaceholder(last5) ==
    IF Truthy(PyList(last5)) THEN last5 ELSE [i \in 1..5 |-> PlaceholderGame]

\* lines 665-693: the entry appended to all_players
PlayerEntry(player, team_id, stats, last5, splits, tracking_stats, hustle_stats) ==
    LET player_tracking == DictGet(tracking_stats, player.id, <<>>)
        player_hustle == DictGet(hustle_stats, player.id, <<>>)
    IN  [id |-> player.id,
         name |-> player.name,
         team |-> team_id,
         position |-> player.position,
         stats |-> stats,
         tracking |-> [touches |-> DictGet(player_tracking, "touches", stats.min * 2),
                       passes |-> DictGet(player_tracking, "passes", stats.ast * 8),
                       ast |-> stats.ast,
                       reb |-> stats.reb,
                       contested_shots |-> DictGet(player_hustle, "contested_shots", 3),
                       speed |-> DictGet(player_tracking, "speed", 4)],
         last5 |-> Last5OrPlaceholder(last5),
         splits |-> splits]

\* lines 608 and 695-699: the returned aggregate
Aggregate(games, players, t) ==
    PyDict([games |-> games, players |-> players, lastUpdated |-> t])

BuildIdle == [pc |-> "idle"]

\* In a build each request answers on the first attempt or fails them all.
BuildRequests(resps) == {up \in Requests(resps) : up.fails \in {0, max_retries}}

\* The answer with the most rows among those an endpoint may give.
PlainResponses ==
    {r \in LiveResponses : Len(r) = 3} \cup {r \in StatsResponses : Len(r) = 1}
        \cup {r \in UNION {RosterResponses(t) : t \in Teams} : Len(r) > 0}
        \cup {r \in GameLogResponses : Len(r) = 6}
        \cup {r \in HustleResponses : Len(r) > 0}
        \cup {<<MeasureRow(Measures[i], 11)>> : i \in {1, 3, 4}}
        \cup {<<MeasureRow(Measures[2], 0), MeasureRow(Measures[2], 11)>>}

\* A request that did not simply give its plain answer on the first
\* attempt: it failed, or needed a retry, or answered with fewer rows.
Faulty(e) ==
    \/ e.raised
    \/ e.invocations > 1
    \/ IF e.endpoint = "PlayerDashboardByGeneralSplits"
       THEN e.resp.v.overall = <<>>
       ELSE e.resp.v \notin PlainResponses

RECURSIVE FaultCount(_)
FaultCount(io) ==
    IF io = <<>> THEN 0
    ELSE (IF Faulty(io[1]) THEN 1 ELSE 0) + FaultCount(Tail(io))

\* One call of a fetch function by the build: its argument, what it
\* returned and the requests it made.
Call(fn, arg, res) == [fn |-> fn, arg |-> arg, ret |-> res.ret, io |-> res.io]

RECURSIVE RequestsOf(_)
RequestsOf(calls) ==
    IF calls = <<>> THEN <<>> ELSE calls[1].io \o RequestsOf(Tail(calls))

\* What a fetch made by the build leaves behind; `charged` of its requests
\* count against the bound on faulty requests.
BuildFetched(key, res, charged) ==
    /\ faults + charged <= MaxFaults
    /\ faults' = faults + charged
    /\ cache' = res.cache
    /\ now' = res.now
    /\ written' = IF res.wrote THEN Written_set(written, key, res.ret, res.now)
                  ELSE written

\* The build is left, with `ret` or with an exception.
BuildReturns(ret, raised, b, ended) ==
    /\ last' = [NoOp EXCEPT !.op = "build_dashboard_data", !.ret = ret,
                            !.raised = raised, !.io = RequestsOf(b.calls),
                            !.calls = b.calls, !.started = b.started,
                            !.ended = ended, !.before = b.before]
    /\ build' = BuildIdle
    /\ steps' = steps + 1

\* After a call the build goes on as `b`; nothing in build_dashboard_data
\* catches an exception, so one that left the fetch function leaves the build.
BuildGoesOn(res, b) ==
    IF res.raised
    THEN BuildReturns(PyNone, TRUE, b, res.now)
    ELSE build' = b /\ UNCHANGED <<last, steps>>

\* line 606: `if not games_raw`
NoGames_never(games_raw) == FALSE

NoGames(games_raw) == ~Truthy(games_raw)

\* lines 604-608: the schedule, whose two sources answer or fail freely; no
\* game today ends the build at once
BuildSchedule ==
    /\ build.pc = "idle"
    /\ steps < MaxBuilds
    /\ \E live \in BuildRequests(LiveResponses), stats \in BuildRequests(StatsResponses) :
          \E res \in {fetch_todays_games(cache, now, live, stats)} :
              \E b \in {[pc |-> "tracking", started |-> now, before |-> cache,
                         calls |-> <<Call("fetch_todays_games", 0, res)>>,
                         games_raw |-> res.ret.v,
                         tracking_stats |-> <<>>, hustle_stats |-> <<>>,
                         games |-> <<>>, team_ids |-> {},
                         team_id |-> 0, top_players |-> <<>>,
                         stats |-> DefaultStats, last5 |-> <<>>,
                         all_players |-> <<>>]} :
                  /\ BuildFetched("todays_games", res, 0)
                  /\ IF ~res.raised /\ NoGames(res.ret)
                     THEN BuildReturns(Aggregate(<<>>, <<>>, res.now), FALSE, b, res.now)
                     ELSE BuildGoesOn(res, b)

\* line 612
BuildTracking ==
    /\ build.pc = "tracking"
    /\ \E ups \in {u \in TrackingRequests : u[1].fails \in {0, max_retries}} :
          \E res \in {fetch_tracking_stats(cache, now, ups)} :
              /\ BuildFetched("tracking_stats", res, FaultCount(res.io))
              /\ BuildGoesOn(res,
                     [build EXCEPT !.pc = "hustle",
                                   !.calls = Append(@, Call("fetch_tracking_stats", 0, res)),
                                   !.tracking_stats = res.ret.v])

\* lines 613-642: the hustle statistics, then the loop over the games
BuildHustle ==
    /\ build.pc = "hustle"
    /\ \E up \in BuildRequests(HustleResponses) :
          \E res \in {fetch_hustle_stats(cache, now, up)},
             loop \in {GamesLoop(build.games_raw, 1, <<>>, {})} :
              /\ BuildFetched("hustle_stats", res, FaultCount(res.io))
              /\ BuildGoesOn(res,
                     [build EXCEPT !.pc = "teams",
                                   !.calls = Append(@, Call("fetch_hustle_stats", 0, res)),
                                   !.hustle_stats = res.ret.v,
                                   !.games = loop.games,
                                   !.team_ids = loop.team_ids])

\* lines 645-650: the next team of the set, in whatever order the set yields
BuildRoster ==
    /\ build.pc = "teams"
    /\ \E team_id \in build.team_ids :
          \E up \in BuildRequests(RosterResponses(team_id)) :
              \E res \in {fetch_team_roster(cache, now, team_id, up)} :
                  \E top_players \in {SkipNoId(TopPlayers(res.ret.v))} :
                      /\ BuildFetched(roster_key(team_id), res, FaultCount(res.io))
                      /\ BuildGoesOn(res,
                             [build EXCEPT
                                 !.pc = IF top_players = <<>> THEN "teams" ELSE "stats",
                                 !.calls = Append(@, Call("fetch_team_roster", team_id, res)),
                                 !.team_ids = @ \ {team_id},
                                 !.team_id = team_id,
                                 !.top_players = top_players])

\* line 660
BuildPlayerStats ==
    /\ build.pc = "stats"
    /\ \E player_id \in {build.top_players[1].id} :
          \E up \in BuildRequests(DashboardResponses(player_id)) :
              \E res \in {fetch_player_stats(cache, now, player_id, build.team_id, up)} :
                  /\ BuildFetched(stats_key(player_id), res, FaultCount(res.io))
                  /\ BuildGoesOn(res,
                         [build EXCEPT
                             !.pc = "last5",
                             !.calls = Append(@, Call("fetch_player_stats", player_id, res)),
                             !.stats = res.ret.v])

\* line 661
BuildPlayerLast5 ==
    /\ build.pc = "last5"
    /\ \E player_id \in {build.top_players[1].id} :
          \E up \in BuildRequests(GameLogResponses) :
              \E res \in {fetch_player_last5(cache, now, player_id, up)} :
                  /\ BuildFetched(last5_key(player_id), res, FaultCount(res.io))
                  /\ BuildGoesOn(res,
                         [build EXCEPT
                             !.pc = "splits",
                             !.calls = Append(@, Call("fetch_player_last5", player_id, res)),
                             !.last5 = res.ret.v])

\* lines 662-693: the splits, then the player's entry is appended
BuildPlayerSplits ==
    /\ build.pc = "splits"
    /\ \E player \in {build.top_players[1]} :
          \E up \in BuildRequests(DashboardResponses(player.id)) :
              \E res \in {fetch_player_splits(cache, now, player.id, up)},
                 rest \in {SkipNoId(Tail(build.top_players))} :
                  /\ BuildFetched(splits_key(player.id), res, FaultCount(res.io))
                  /\ BuildGoesOn(res,
                         [build EXCEPT
                             !.pc = IF rest = <<>> THEN "teams" ELSE "stats",
                             !.calls = Append(@, Call("fetch_player_splits", player.id, res)),
                             !.top_players = rest,
                             !.all_players =
                                 Append(@, PlayerEntry(player, build.team_id, build.stats,
                                                       build.last5, res.ret.v,
                                                       build.tracking_stats,
                                                       build.hustle_stats))])

\* lines 695-699
BuildReturn ==
    /\ build.pc = "teams"
    /\ build.team_ids = {}
    /\ BuildReturns(Aggregate(build.games, build.all_players, now), FALSE, build, now)
    /\ UNCHANGED <<cache, now, written, faults>>

NextBuild ==
    /\ UNCHANGED <<api, raceVars, trend>>
    /\ \/ BuildSchedule
       \/ BuildTracking
       \/ BuildHustle
       \/ BuildRoster
       \/ BuildPlayerStats
       \/ BuildPlayerLast5
       \/ BuildPlayerSplits
       \/ BuildReturn

SpecBuild == Init /\ [][NextBuild]_vars

(***************************************************************************)
(* API ENDPOINTS: get_dashboard, get_player, refresh_data                  *)
(*                                                                         *)
(* The handlers are coroutines without an await: the event loop runs one   *)
(* at a time from its first line to its last. A build, whether called by   *)
(* get_dashboard or run as the background task of a refresh, goes through  *)
(* the steps above; at this level nothing else runs while it does. The     *)
(* upstream answers a build plainly after the schedule: InitApi starts     *)
(* with the allowance of faulty requests used up.                          *)
(***************************************************************************)
TTL_DASHBOARD == 300

ApiIdle == [api EXCEPT !.serving = "none"]

\* a handler is entered: one more call
ApiCalled == api.serving = "none" /\ build.pc = "idle" /\ api.calls < MaxCalls

\* the build called for is yet to run
Building == [NoOp EXCEPT !.op = "building"]

\* line 721: `if cached`
DashboardHit_never(cached) == FALSE

DashboardHit(cached) == Truthy(cached)

\* lines 718-725: the cached aggregate is returned, or the build is called
GetDashboard ==
    /\ ApiCalled
    /\ \E cached \in {DataCache_get(cache, "dashboard_data", Seconds(TTL_DASHBOARD), now)} :
          IF DashboardHit(cached)
          THEN /\ last' = [NoOp EXCEPT !.op = "get_dashboard", !.key = "dashboard_data",
                                       !.ttl = Seconds(TTL_DASHBOARD), !.ret = cached,
                                       !.src = "cache", !.started = now, !.ended = now,
                                       !.before = cache]
               /\ api' = [api EXCEPT !.calls = @ + 1]
          ELSE /\ last' = Building
               /\ api' = [api EXCEPT !.serving = "get_dashboard", !.calls = @ + 1,
                                     !.started = now, !.before = cache]
    /\ UNCHANGED <<cache, now, written, steps, build, faults>>

\* lines 725-730: the build returned: the aggregate is stored and returned;
\* an exception becomes the response 500
GetDashboardReturns ==
    /\ api.serving = "get_dashboard"
    /\ build.pc = "idle"
    /\ last.op = "build_dashboard_data"
    /\ cache' = IF last.raised THEN cache
                ELSE DataCache_set(cache, "dashboard_data", last.ret, now)
    /\ written' = IF last.raised THEN written
                  ELSE Written_set(written, "dashboard_data", last.ret, now)
    /\ last' = [last EXCEPT !.op = "get_dashboard", !.key = "dashboard_data",
                            !.ttl = Seconds(TTL_DASHBOARD), !.src = "build",
                            !.started = api.started, !.ended = now,
                            !.before = api.before]
    /\ api' = ApiIdle
    /\ UNCHANGED <<now, steps, build, faults>>

\* line 747: players.find_player_by_id looks the id up in the static list
\* of the library
KnownPlayers == Players
PlayerIds == {11, 99}

\* lines 758-764
PlayerResponse(player_id, stats, last5, splits) ==
    PyDict([status |-> 200, id |-> player_id, stats |-> stats.v, last5 |-> last5.v,
            splits |-> splits.v])

\* line 749
NotFound == PyDict([status |-> 404, detail |-> "Player not found"])

\* lines 743-769
GetPlayer(player_id) ==
    /\ ApiCalled
    /\ api' = [api EXCEPT !.calls = @ + 1]
    /\ IF player_id \notin KnownPlayers
       THEN /\ last' = [NoOp EXCEPT !.op = "get_player", !.ret = NotFound,
                                    !.started = now, !.ended = now, !.before = cache]
            /\ UNCHANGED <<cache, now, written>>
       ELSE \E dash \in BuildRequests(DashboardResponses(player_id)),
               log \in BuildRequests(GameLogResponses) :
              \E stats \in {fetch_player_stats(cache, now, player_id, 0, dash)} :
              \E last5 \in {fetch_player_last5(stats.cache, stats.now, player_id, log)} :
              \E splits \in {fetch_player_splits(last5.cache, last5.now, player_id, dash)} :
              \E calls \in {<<Call("fetch_player_stats", player_id, stats),
                               Call("fetch_player_last5", player_id, last5),
                               Call("fetch_player_splits", player_id, splits)>>} :
                  /\ cache' = splits.cache
                  /\ now' = splits.now
                  /\ written' =
                        LET w1 == IF stats.wrote
                                  THEN Written_set(written, stats_key(player_id),
                                                   stats.ret, stats.now)
                                  ELSE written
                            w2 == IF last5.wrote
                                  THEN Written_set(w1, last5_key(player_id),
                                                   last5.ret, last5.now)
                                  ELSE w1
                        IN  IF splits.wrote
                            THEN Written_set(w2, splits_key(player_id),
                                             splits.ret, splits.now)
                            ELSE w2
                  /\ last' = [NoOp EXCEPT
                                !.op = "get_player",
                                !.ret = PlayerResponse(player_id, stats.ret, last5.ret,
                                                       splits.ret),
                                !.io = RequestsOf(calls), !.calls = calls,
                                !.started = now, !.ended = splits.now,
                                !.before = cache]
    /\ UNCHANGED <<steps, build, faults>>

\* lines 786-790: the dict is cleared, the rebuild is handed to the
\* background tasks and the acknowledgement returned
RefreshData ==
    /\ ApiCalled
    /\ cache' = DataCache_clear(cache)
    /\ written' = <<>>
    /\ api' = [api EXCEPT !.calls = @ + 1, !.pending = @ + 1]
    /\ last' = [NoOp EXCEPT !.op = "refresh_data",
                            !.ret = PyDict([status |-> "refresh_started"]),
                            !.started = now, !.ended = now, !.before = cache]
    /\ UNCHANGED <<now, steps, build, faults>>

\* line 789: a task added runs once the response has gone out
BackgroundStarts ==
    /\ api.serving = "none"
    /\ build.pc = "idle"
    /\ api.pending > 0
    /\ api' = [api EXCEPT !.serving = "background", !.pending = @ - 1,
                          !.started = now, !.before = cache]
    /\ last' = Building
    /\ UNCHANGED <<cache, now, written, steps, build, faults>>

\* what the background build returns is dropped
BackgroundEnds ==
    /\ api.serving = "background"
    /\ build.pc = "idle"
    /\ last.op = "build_dashboard_data"
    /\ api' = ApiIdle
    /\ last' = [last EXCEPT !.op = "background_task"]
    /\ UNCHANGED <<cache, now, written, steps, build, faults>>

\* the build a handler or a background task called for
ApiBuild ==
    /\ api.serving # "none"
    /\ build.pc = "idle" => last.op = "building"
    /\ UNCHANGED api
    /\ \/ BuildSchedule
       \/ BuildTracking
       \/ BuildHustle
       \/ BuildRoster
       \/ BuildPlayerStats
       \/ BuildPlayerLast5
       \/ BuildPlayerSplits
       \/ BuildReturn

\* time passes between two requests: less than the time to live of the
\* aggregate, or just that
ApiWait ==
    /\ api.serving = "none"
    /\ build.pc = "idle"
    /\ last.op # "none"
    /\ now = last.ended
    /\ \E d \in {Seconds(TTL_GAMES), Seconds(TTL_DASHBOARD)} : Wait(d)
    /\ UNCHANGED <<steps, build, faults, api>>

InitApi ==
    /\ InitThreads
    /\ trend = NoTrend
    /\ cache = DataCache_init
    /\ now = 0
    /\ written = <<>>
    /\ last = NoOp
    /\ steps = 0
    /\ build = BuildIdle
    /\ faults = MaxFaults
    /\ api = [serving |-> "none", pending |-> 0, calls |-> 0, started |-> 0,
              before |-> <<>>]

\* A run of the API-level specification asks for players, or it asks for
\* the dashboard and refreshes.
AskingPlayers == last.op \in {"none", "get_player"}
AskingDashboard == last.op # "get_player"

NextApi ==
    /\ UNCHANGED <<raceVars, trend>>
    /\ \/ AskingDashboard /\ GetDashboard
       \/ GetDashboardReturns
       \/ AskingPlayers /\ \E player_id \in PlayerIds : GetPlayer(player_id)
       \/ AskingDashboard /\ RefreshData
       \/ BackgroundStarts
       \/ BackgroundEnds
       \/ ApiBuild
       \/ ApiWait

SpecApi == InitApi /\ [][NextApi]_vars

(***************************************************************************)
(* THREADS: DataCache under a background build and refresh_data            *)
(*                                                                         *)
(* Of a background build only its traffic with the cache is kept: for each *)
(* key of BuildKeys in turn, cache.get; on a miss an upstream request,     *)
(* which takes time, and cache.set. Every set makes a value of its own.    *)
(* refresh_data and get_games run on the event loop, one handler at a     *)
(* time.                                                                   *)
(***************************************************************************)
BuildKeys == <<"todays_games", "tracking_stats">>

KeyOf(w) == BuildKeys[th[w].i]

\* line 789: tasks that may start: those whose response has gone out
Runnable_on_add(t) == t.added - t.started

Runnable(t) == t.released - t.started

\* lines 176-179: `self.cache[key] = {...}` puts the new entry in the
\* place of the old one
StoreEntry_in_place(d, key, entry) ==
    IF key \in DOMAIN d
    THEN [d EXCEPT ![key] = [data |-> entry.data, timestamp |-> @.timestamp]]
    ELSE [k \in DOMAIN d \cup {key} |-> IF k = key THEN entry ELSE d[k]]

StoreEntry(d, key, entry) ==
    [k \in DOMAIN d \cup {key} |-> IF k = key THEN entry ELSE d[k]]

Saw(w, op, entry, ret, raised) ==
    [NothingSeen EXCEPT !.op = op, !.by = w, !.key = KeyOf(w), !.entry = entry,
                        !.ret = ret, !.raised = raised]

\* the fetch function returned: the next one is called, or the build ends
FetchReturned(w) ==
    IF th[w].i < Len(BuildKeys)
    THEN /\ th' = [th EXCEPT ![w] = [ThreadIdle EXCEPT !.pc = "get_in", !.i = th[w].i + 1]]
         /\ UNCHANGED tasks
    ELSE /\ th' = [th EXCEPT ![w] = ThreadIdle]
         /\ tasks' = [tasks EXCEPT !.finished = @ + 1]

\* a worker thread takes a background task: build_dashboard_data begins
TaskStarts(w) ==
    /\ th[w].pc = "idle"
    /\ Runnable(tasks) > 0
    /\ th' = [th EXCEPT ![w] = [ThreadIdle EXCEPT !.pc = "get_in", !.i = 1]]
    /\ tasks' = [tasks EXCEPT !.started = @ + 1]
    /\ UNCHANGED <<dicts, self_cache, handler, made, seen, now>>

\* line 169, `key in self.cache`: self.cache is read and tested; line 173
\* when the test fails
GetContains(w) ==
    /\ th[w].pc = "get_in"
    /\ IF KeyOf(w) \in DOMAIN dicts[self_cache]
       THEN /\ th' = [th EXCEPT ![w].pc = "get_item"]
            /\ UNCHANGED seen
       ELSE /\ th' = [th EXCEPT ![w].pc = "request"]
            /\ seen' = Saw(w, "get", NoEntry, PyNone, FALSE)
    /\ UNCHANGED <<dicts, self_cache, handler, tasks, made, now>>

\* line 170, `self.cache[key]`: self.cache is read again and subscripted; a
\* KeyError leaves get, the fetch function (cache.get stands outside its try)
\* and the build. Lines 171-173 and the `if cached` of the fetch function
\* work on the entry read.
GetItem(w) ==
    /\ th[w].pc = "get_item"
    /\ IF KeyOf(w) \in DOMAIN dicts[self_cache]
       THEN \E entry \in {dicts[self_cache][KeyOf(w)]} :
            \E ret \in {IF Fresh(now - entry.timestamp, Seconds(TTL_GAMES))
                        THEN entry.data ELSE PyNone} :
               /\ seen' = Saw(w, "get", entry, ret, FALSE)
               /\ IF CacheHit(ret)
                  THEN FetchReturned(w)
                  ELSE th' = [th EXCEPT ![w].pc = "request"] /\ UNCHANGED tasks
       ELSE /\ th' = [th EXCEPT ![w] = ThreadIdle]
            /\ seen' = Saw(w, "get", NoEntry, PyNone, TRUE)
            /\ tasks' = [tasks EXCEPT !.finished = @ + 1]
    /\ UNCHANGED <<dicts, self_cache, handler, made, now>>

\* the upstream request of the fetch function, which takes time; then lines
\* 176-179 make the new entry, with the clock of that moment
Request(w) ==
    /\ th[w].pc = "request"
    /\ now' = now + 1
    /\ \E entry \in {[data |-> PyList(<<Cardinality(made) + 1>>), timestamp |-> now']} :
          /\ th' = [th EXCEPT ![w].pc = "set_store", ![w].entry = entry]
          /\ made' = made \cup {[key |-> KeyOf(w), entry |-> entry]}
    /\ UNCHANGED <<dicts, self_cache, handler, tasks, seen>>

\* line 176, `self.cache[key] = ...`: self.cache is read and the entry stored
SetStores(w) ==
    /\ th[w].pc = "set_store"
    /\ dicts' = [dicts EXCEPT ![self_cache] = StoreEntry(@, KeyOf(w), th[w].entry)]
    /\ seen' = Saw(w, "set", th[w].entry, th[w].entry.data, FALSE)
    /\ FetchReturned(w)
    /\ UNCHANGED <<self_cache, handler, made, now>>

\* line 788, cache.clear(): self.cache refers to a new, empty dict
RefreshClears ==
    /\ handler.pc = "idle"
    /\ tasks.added < MaxRefreshes
    /\ dicts' = Append(dicts, DataCache_clear(dicts[self_cache]))
    /\ self_cache' = Len(dicts) + 1
    /\ handler' = [pc |-> "cleared", before |-> dicts[self_cache],
                   unfinished |-> tasks.released - tasks.finished]
    /\ UNCHANGED <<th, tasks, made, seen, now>>

\* line 789
RefreshAddsTask ==
    /\ handler.pc = "cleared"
    /\ handler' = [handler EXCEPT !.pc = "added"]
    /\ tasks' = [tasks EXCEPT !.added = @ + 1]
    /\ UNCHANGED <<dicts, self_cache, th, made, seen, now>>

\* line 790: the acknowledgement; with it the task added is released
RefreshReturns ==
    /\ handler.pc = "added"
    /\ handler' = HandlerIdle
    /\ tasks' = [tasks EXCEPT !.released = @ + 1]
    /\ seen' = [NothingSeen EXCEPT !.op = "refresh_data",
                                   !.ret = PyDict([status |-> "refresh_started"]),
                                   !.n = tasks.released + 1,
                                   !.started = tasks.started,
                                   !.cache = dicts[self_cache],
                                   !.before = handler.before,
                                   !.unfinished = handler.unfinished]
    /\ UNCHANGED <<dicts, self_cache, th, made, now>>

\* lines 733-737, get_games: a handler calls fetch_todays_games on the event
\* loop, where no clear can come between its statements; on a miss it makes
\* its request and stores what it got
GetGames ==
    /\ handler.pc = "idle"
    /\ BuildKeys[1] \notin DOMAIN dicts[self_cache]
    /\ now' = now + 1
    /\ \E entry \in {[data |-> PyList(<<Cardinality(made) + 1>>), timestamp |-> now']} :
          /\ made' = made \cup {[key |-> BuildKeys[1], entry |-> entry]}
          /\ dicts' = [dicts EXCEPT ![self_cache] = StoreEntry(@, BuildKeys[1], entry)]
          /\ seen' = [NothingSeen EXCEPT !.op = "set", !.by = "loop",
                                         !.key = BuildKeys[1], !.entry = entry,
                                         !.ret = entry.data]
    /\ UNCHANGED <<self_cache, th, handler, tasks>>

InitRace ==
    /\ InitThreads
    /\ trend = NoTrend
    /\ cache = DataCache_init
    /\ now = 0
    /\ written = <<>>
    /\ last = NoOp
    /\ steps = 0
    /\ build = BuildIdle
    /\ faults = 0
    /\ api = [serving |-> "none", pending |-> 0, calls |-> 0, started |-> 0,
              before |-> <<>>]

NextRace ==
    /\ UNCHANGED <<cache, written, last, steps, build, faults, api, trend>>
    /\ \/ \E w \in Workers :
             \/ TaskStarts(w)
             \/ GetContains(w)
             \/ GetItem(w)
             \/ Request(w)
             \/ SetStores(w)
       \/ RefreshClears
       \/ RefreshAddsTask
       \/ RefreshReturns
       \/ GetGames

SpecRace == InitRace /\ [][NextRace]_vars

(***************************************************************************)
(* TrendAnalyzer (spec 4.6, steps 1 to 6). The analytics engine is not     *)
(* part of src/main.py; it is modelled from its contract. A history is a   *)
(* sequence of event records, newest first. Averages and the percent       *)
(* deviation are kept as exact fractions [num, den].                       *)
(***************************************************************************)
StatKeys == {"pts", "reb"}

\* the event records a game may add to a history
EventRecords == {[pts |-> 0, reb |-> 4], [pts |-> 10, reb |-> 0]}

RecentWindow == 3
BaselineWindow == 10
TrendThreshold == 15

RECURSIVE SumOf(_)
SumOf(vals) == IF vals = <<>> THEN 0 ELSE vals[1] + SumOf(Tail(vals))

mean(vals) == [num |-> SumOf(vals), den |-> Len(vals)]

\* step 2: the values for statKey of the first n records, or of all of
\* them when the history is shorter
ValuesOf(history, statKey, n) ==
    [i \in 1..(IF Len(history) < n THEN Len(history) ELSE n) |-> history[i][statKey]]

\* step 1
Insufficient_below_two(history) == Len(history) < 2

Insufficient(history) == Len(history) < RecentWindow

\* step 5: (avgRecent - avgBaseline) / avgBaseline * 100
PctDiff(avgRecent, avgBaseline) ==
    [num |-> 100 * (avgRecent.num * avgBaseline.den - avgBaseline.num * avgRecent.den),
     den |-> avgRecent.den * avgBaseline.num]

\* step 6, for a positive denominator
Classify(pctDiff) ==
    IF pctDiff.num > TrendThreshold * pctDiff.den THEN "hot"
    ELSE IF pctDiff.num < (0 - TrendThreshold) * pctDiff.den THEN "cold"
    ELSE "stable"

analyze(history, statKey) ==
    IF Insufficient(history)
    THEN [trend |-> "neutral", note |-> "insufficient data"]
    ELSE LET recent == ValuesOf(history, statKey, RecentWindow)
             baseline == ValuesOf(history, statKey, BaselineWindow)
             avgRecent == mean(recent)
             avgBaseline == mean(baseline)
         IN  IF avgBaseline.num = 0
             THEN [trend |-> "neutral", avgRecent |-> 0, avgBaseline |-> 0]
             ELSE [trend |-> Classify(PctDiff(avgRecent, avgBaseline)),
                   avgRecent |-> avgRecent, avgBaseline |-> avgBaseline,
                   pctDiff |-> PctDiff(avgRecent, avgBaseline)]

\* a game is played: its record comes first in the history
RecordGame(record) ==
    /\ Len(trend.history) < MaxHistory
    /\ trend' = [trend EXCEPT !.history = <<record>> \o @, !.result = NoResult]

Analyze(statKey) ==
    trend' = [trend EXCEPT !.statKey = statKey,
                           !.result = analyze(trend.history, statKey)]

InitTrend ==
    /\ InitThreads
    /\ trend = NoTrend
    /\ cache = DataCache_init
    /\ now = 0
    /\ written = <<>>
    /\ last = NoOp
    /\ steps = 0
    /\ build = BuildIdle
    /\ faults = 0
    /\ api = [serving |-> "none", pending |-> 0, calls |-> 0, started |-> 0,
              before |-> <<>>]

NextTrend ==
    /\ UNCHANGED <<cache, now, written, last, steps, build, faults, api, raceVars>>
    /\ \/ \E record \in EventRecords : RecordGame(record)
       \/ \E statKey \in StatKeys : Analyze(statKey)

SpecTrend == InitTrend /\ [][NextTrend]_vars

(***************************************************************************)
(* Claims about DataCache, checked under SpecCache.                        *)
(***************************************************************************)

\* C1: DataCache.get(key, ttl) returns the value of the most recent
\* set(key, ..) exactly when such a set happened since the last clear and
\* its age at the time of the get is strictly below the ttl passed to this
\* get; in every other case it returns None.
C1_GetReturnsLatestIffFresh ==
    last.op = "get" =>
        last.ret = IF /\ last.key \in DOMAIN written
                      /\ last.started - written[last.key].at < last.ttl
                   THEN written[last.key].v
                   ELSE PyNone

\* The same entry is present for a caller with a large ttl although a caller
\* with a smaller ttl would find it absent.
C1_Witness ==
    /\ last.op = "get"
    /\ last.key \in DOMAIN written
    /\ last.ret = written[last.key].v
    /\ last.started - written[last.key].at >= 1
    /\ DataCache_get(cache, last.key, 1, last.started) = PyNone

\* C9: DataCache.set(key, v) overwrites and resets the age to zero: right
\* after it get(key, ttl) returns v for every ttl > 0, whatever the key held
\* before, and from then on a get of that key never returns the value the
\* key held before.
C9_SetOverwritesAndResetsAge ==
    last.op = "set" =>
        /\ now = last.started =>
              \A ttl \in CacheTtls : DataCache_get(cache, last.key, ttl, now) = last.ret
        /\ \A ttl \in CacheTtls :
              DataCache_get(cache, last.key, ttl, now) \in {last.ret, PyNone}

\* A set over an entry that had expired for every caller, holding another value.
C9_Witness ==
    /\ last.op = "set"
    /\ now = last.started
    /\ last.key \in DOMAIN last.before
    /\ last.before[last.key].data # last.ret
    /\ \A ttl \in CacheTtls :
          /\ DataCache_get(last.before, last.key, ttl, now) = PyNone
          /\ DataCache_get(cache, last.key, ttl, now) = last.ret

\* C10: after DataCache.clear, get(key, ttl) returns None for every key and
\* every ttl until that key is set again.
C10_ClearDropsAll ==
    \A key \in CacheKeys :
        key \notin DOMAIN written =>
            \A ttl \in CacheTtls : DataCache_get(cache, key, ttl, now) = PyNone

\* A clear that found entries just written, fresh for every caller.
C10_Witness ==
    /\ last.op = "clear"
    /\ now = last.started
    /\ DOMAIN last.before = CacheKeys
    /\ \A key \in CacheKeys :
          /\ DataCache_get(last.before, key, 1, now) # PyNone
          /\ DataCache_get(cache, key, 1, now) = PyNone

\* C11: DataCache.get changes nothing in the cache: after a get the dict
\* is the dict the get found, an expired entry included.
C11_GetIsPureRead ==
    last.op = "get" => cache = last.before

\* A get returned None for an entry that had expired for its ttl; the entry
\* is still there, value and timestamp, for a caller with a larger ttl.
C11_Witness ==
    /\ last.op = "get"
    /\ last.key \in DOMAIN last.before
    /\ last.ret = PyNone
    /\ last.key \in DOMAIN cache
    /\ cache[last.key] = last.before[last.key]
    /\ \E ttl \in CacheTtls :
          DataCache_get(cache, last.key, ttl, last.started) = cache[last.key].data

(***************************************************************************)
(* Claims about the fetch functions, checked under SpecFetch.              *)
(***************************************************************************)
FetchOps ==
    {"fetch_todays_games", "fetch_team_roster", "fetch_player_stats",
     "fetch_player_last5", "fetch_player_splits", "fetch_tracking_stats",
     "fetch_hustle_stats"}

\* the value each fetch function starts from
DefaultValue(op) ==
    CASE op \in {"fetch_todays_games", "fetch_team_roster", "fetch_player_last5"} ->
            PyList(<<>>)
      [] op = "fetch_player_stats" -> PyDict(DefaultStats)
      [] op = "fetch_player_splits" -> PyDict(DefaultSplits)
      [] op \in {"fetch_tracking_stats", "fetch_hustle_stats"} -> PyDict(<<>>)

AllRequestsFailed(io) == Len(io) > 0 /\ \A i \in 1..Len(io) : io[i].raised
AllRequestsAnswered(io) == Len(io) > 0 /\ \A i \in 1..Len(io) : ~io[i].raised

\* C2: a fetch that finds, under its key, a result stored by an earlier call
\* less than its TTL ago (no clear since) returns that result and makes no
\* outbound request, whatever the stored result is.
C2_RepeatCallServedFromCache ==
    ( /\ last.op \in FetchOps
      /\ last.key \in DOMAIN last.before
      /\ last.started - last.before[last.key].timestamp < last.ttl )
    => ( /\ last.io = <<>>
         /\ last.ret = last.before[last.key].data )

\* C3: a fetch whose every safe_api_call raised (all retries failed) does
\* not raise and returns the empty/default value of its operation.
C3_FailedFetchReturnsDefault ==
    (last.op \in FetchOps /\ AllRequestsFailed(last.io))
    => (~last.raised /\ last.ret = DefaultValue(last.op))

\* Both schedule sources fail on all three attempts while an expired
\* schedule is still in the dict: the result is the empty list.
C3_Witness ==
    /\ last.op = "fetch_todays_games"
    /\ Len(last.io) = 2
    /\ \A i \in 1..2 : last.io[i].raised /\ last.io[i].invocations = max_retries
    /\ "todays_games" \in DOMAIN last.before
    /\ Truthy(last.before["todays_games"].data)
    /\ last.started - last.before["todays_games"].timestamp >= last.ttl
    /\ last.ret = PyList(<<>>)

C8_SuccessfulFetchIsCached ==
    (last.op \in FetchOps /\ AllRequestsAnswered(last.io))
    => ( /\ last.key \in DOMAIN cache
         /\ cache[last.key] = [data |-> last.ret, timestamp |-> last.ended] )

\* A roster fetched again after the stored one expired: the entry is
\* overwritten with the new rows and the new time.
C8_Witness ==
    /\ last.op = "fetch_team_roster"
    /\ AllRequestsAnswered(last.io)
    /\ Truthy(last.ret)
    /\ last.key \in DOMAIN last.before
    /\ last.before[last.key].timestamp < last.started
    /\ cache[last.key] = [data |-> last.ret, timestamp |-> last.ended]
    /\ last.ended = last.started + PacingDelay

\* C15: the attempts of one safe_api_call are at most three; the second
\* follows the first failed one after a wait of 1 s and the third the second
\* after 2 s (each plus the pacing delay of the attempt); the waits of one
\* call add up to at most 3 s; and after the third failed attempt the call
\* ends at once: what comes next starts at the time of that attempt.
C15_RetriesBackOffExponentially ==
    last.op \in FetchOps =>
        \A i \in 1..Len(last.io) :
            LET e == last.io[i]
                n == Len(e.at)
            IN  /\ n = e.invocations
                /\ n \in 1..3
                /\ \A k \in 1..(n - 1) :
                      e.at[k + 1] - e.at[k] =
                          (IF k = 1 THEN Seconds(1) ELSE Seconds(2)) + PacingDelay
                /\ e.at[n] - e.at[1] - (n - 1) * PacingDelay <= Seconds(3)
                /\ e.raised =>
                      /\ n = 3
                      /\ IF i = Len(last.io) THEN last.ended = e.at[n]
                         ELSE last.io[i + 1].at[1] = e.at[n] + PacingDelay

\* A request failed three times, 1 s and then 2 s of backoff between the
\* attempts, and the fetch returned at the time of the third attempt.
C15_Witness ==
    /\ last.op \in FetchOps
    /\ Len(last.io) = 1
    /\ last.io[1].raised
    /\ last.io[1].at = <<last.started + PacingDelay,
                         last.started + 2 * PacingDelay + Seconds(1),
                         last.started + 3 * PacingDelay + Seconds(3)>>
    /\ last.ended = last.io[1].at[3]

\* C20: fetch_player_last5, when its request is answered with a game log of
\* n rows (newest first), returns the first min(5, n) rows in that order,
\* each as a game record; the rows after the fifth have no part in it.
C20_Last5TakesNewestFive ==
    (last.op = "fetch_player_last5" /\ AllRequestsAnswered(last.io)) =>
        LET log == last.io[1].resp.v
            m == IF Len(log) < 5 THEN Len(log) ELSE 5
        IN  /\ Len(last.ret.v) = m
            /\ \A i \in 1..m :
                  last.ret.v[i] = [game |-> log[i].MATCHUP, pts |-> log[i].PTS,
                                   reb |-> log[i].REB, ast |-> log[i].AST]

\* A game log of six rows gave the first five.
C20_Witness ==
    /\ last.op = "fetch_player_last5"
    /\ AllRequestsAnswered(last.io)
    /\ Len(last.io[1].resp.v) = 6
    /\ Len(last.ret.v) = 5
    /\ last.ret.v[1].game = last.io[1].resp.v[1].MATCHUP
    /\ last.ret.v[5].game = last.io[1].resp.v[5].MATCHUP

\* the fetch ended on a request that failed on every attempt: for
\* fetch_todays_games the fallback after the live source gave nothing, for
\* the others the request at which the fetch gave up
FetchFailed(l) == l.op \in FetchOps /\ Len(l.io) > 0 /\ l.io[Len(l.io)].raised

\* C24: a fetch whose request failed (for fetch_todays_games both sources,
\* for fetch_tracking_stats any of its measures) leaves the dict as it
\* found it: no entry is added, and every entry, fresh or expired, that
\* under the key of the fetch included, keeps its value and timestamp.
C24_FailedFetchLeavesCache ==
    FetchFailed(last) => cache = last.before

\* A fetch failed while the dict held, under its key, an entry stored by an
\* earlier call and since expired: the entry is still there.
C24_Witness ==
    /\ FetchFailed(last)
    /\ last.key \in DOMAIN last.before
    /\ last.started - last.before[last.key].timestamp >= last.ttl
    /\ Truthy(last.before[last.key].data)
    /\ cache[last.key] = last.before[last.key]

(***************************************************************************)
(* Claims about safe_api_call, checked under SpecCall.                     *)
(***************************************************************************)
\* C23: a safe_api_call invokes the upstream at most 3 times. Given an
\* upstream that fails fewer than 3 times before it answers, it returns
\* that answer from the first attempt that succeeded, and that attempt is
\* its last. Given one that fails 3 times or more, it raises after exactly
\* 3 attempts what the third attempt raised, and returns nothing.
C23_BoundedAttempts ==
    last.op = "safe_api_call" =>
        LET e == last.io[1]
        IN  /\ e.invocations \in 1..3
            /\ Len(e.at) = e.invocations
            /\ IF last.arg.fails < 3
               THEN /\ ~last.raised
                    /\ last.ret = PyObj(last.arg.resp)
                    /\ e.invocations = last.arg.fails + 1
               ELSE /\ last.raised
                    /\ e.invocations = 3
                    /\ e.error = 3

\* An upstream that would have answered on its fourth invocation was given
\* up after the third.
C23_Witness ==
    /\ last.op = "safe_api_call"
    /\ last.arg.fails = 3
    /\ last.arg.resp # <<>>
    /\ last.raised
    /\ last.io[1].invocations = 3
    /\ steps = 2

(***************************************************************************)
(* Claims about build_dashboard_data, checked under SpecBuild.             *)
(***************************************************************************)
BuildDone == last.op = "build_dashboard_data"

PlayerFetches == {"fetch_player_stats", "fetch_player_last5", "fetch_player_splits"}

\* a call one of whose requests failed on every attempt
CallFailed(c) == \E i \in 1..Len(c.io) : c.io[i].raised

\* the players one of whose three fetches failed
FailedPlayers(calls) ==
    {calls[k].arg : k \in {k \in 1..Len(calls) :
                              calls[k].fn \in PlayerFetches /\ CallFailed(calls[k])}}

\* what the call of `fn` for `arg` returned
Returned(calls, fn, arg) ==
    calls[CHOOSE k \in 1..Len(calls) : calls[k].fn = fn /\ calls[k].arg = arg].ret.v

\* the first eight rows, those with a player id, of the roster a call returned
SelectedOf(roster) ==
    {roster[i].id : i \in {i \in 1..Len(roster) : i <= 8 /\ roster[i].id # 0}}

C6_FailedPlayerIsDropped ==
    (BuildDone /\ ~last.raised) =>
        \A p \in FailedPlayers(last.calls) :
            \A j \in 1..Len(last.ret.v.players) : last.ret.v.players[j].id # p

\* C7: a build whose schedule fetch returned no game returns no game and no
\* player and called no other fetch function: its requests are those of
\* the schedule alone.
C7_EmptyScheduleEndsBuild ==
    (BuildDone /\ ~Truthy(last.calls[1].ret)) =>
        /\ ~last.raised
        /\ last.ret.v.games = <<>>
        /\ last.ret.v.players = <<>>
        /\ Len(last.calls) = 1
        /\ last.calls[1].fn = "fetch_todays_games"
        /\ \A i \in 1..Len(last.io) :
              last.io[i].endpoint \in {"LiveScoreBoard", "ScoreboardV2"}

\* The live scoreboard answered without a game and the stats scoreboard
\* too: the build returned the empty aggregate after these two requests.
C7_Witness ==
    /\ BuildDone
    /\ last.calls[1].ret = PyList(<<>>)
    /\ Len(last.io) = 2
    /\ \A i \in 1..2 : ~last.io[i].raised /\ last.io[i].resp.v = <<>>
    /\ last.ret = Aggregate(<<>>, <<>>, last.ended)

\* the clock at each upstream invocation of the requests `io`, in order
RECURSIVE AttemptTimes(_)
AttemptTimes(io) ==
    IF io = <<>> THEN <<>> ELSE io[1].at \o AttemptTimes(Tail(io))

\* C14: the upstream invocations of one build, retries included, come one
\* after the other, each at least one pacing delay after the one before it
\* (the first at least one pacing delay after the build began).
C14_AttemptsArePaced ==
    BuildDone =>
        LET A == AttemptTimes(last.io)
        IN  /\ A # <<>> => A[1] - last.started >= PacingDelay
            /\ \A i \in 1..(Len(A) - 1) : A[i + 1] - A[i] >= PacingDelay

\* A build with a request that was retried twice and with requests of
\* different fetch functions exactly one pacing delay apart.
C14_Witness ==
    /\ BuildDone
    /\ \E i \in 1..Len(last.io) : last.io[i].invocations = max_retries
    /\ Len(last.calls) > 5
    /\ \E k \in 1..(Len(last.calls) - 1) :
          /\ last.calls[k].io # <<>>
          /\ last.calls[k + 1].io # <<>>
          /\ last.calls[k + 1].io[1].at[1] =
                 last.calls[k].io[Len(last.calls[k].io)].at[1] + PacingDelay

\* C18: every player build_dashboard_data selected averages at least the
\* minimum of minutes per game (15 in the example of the specification; a
\* player without a profile counts as below it), and at most the limit of
\* players is selected of a team.
C18_SelectionFiltersByMinutes ==
    (BuildDone /\ ~last.raised) =>
        /\ \A j \in 1..Len(last.ret.v.players) : last.ret.v.players[j].stats.min >= 15
        /\ \A team \in Teams :
              Cardinality({j \in 1..Len(last.ret.v.players) :
                              last.ret.v.players[j].team = team}) <= TopPlayersLimit

\* C21: a player for whom fetch_player_last5 returned no game has an empty
\* recent-performance summary in the players build_dashboard_data returns,
\* never placeholder records.
C21_NoRecordsNoSummary ==
    (BuildDone /\ ~last.raised) =>
        \A i \in 1..Len(last.ret.v.players) :
            Returned(last.calls, "fetch_player_last5", last.ret.v.players[i].id) = <<>>
                => last.ret.v.players[i].last5 = <<>>

\* the teams of the games of an aggregate
TeamsOf(games) == {games[i].homeTeamId : i \in 1..Len(games)}
                     \cup {games[i].awayTeamId : i \in 1..Len(games)}

\* the calls of fetch_team_roster for team t, by their place in the log
RosterCalls(calls, t) ==
    {k \in 1..Len(calls) : calls[k].fn = "fetch_team_roster" /\ calls[k].arg = t}

\* C26: in what build_dashboard_data returns, every game has a home and an
\* away team id other than 0; rosters were fetched for the teams of these
\* games only, and for each of them exactly once; every player belongs to
\* one of these teams; and the players of a team are at most 8, all among
\* the first eight rows of its roster.
C26_OutputIsConsistent ==
    (BuildDone /\ ~last.raised) =>
        LET out == last.ret.v
            teams == TeamsOf(out.games)
        IN  /\ \A i \in 1..Len(out.games) :
                  out.games[i].homeTeamId # 0 /\ out.games[i].awayTeamId # 0
            /\ \A k \in 1..Len(last.calls) :
                  last.calls[k].fn = "fetch_team_roster" => last.calls[k].arg \in teams
            /\ \A t \in teams : Cardinality(RosterCalls(last.calls, t)) = 1
            /\ \A i \in 1..Len(out.players) : out.players[i].team \in teams
            /\ \A t \in teams :
                  LET of_team == {i \in 1..Len(out.players) : out.players[i].team = t}
                  IN  /\ Cardinality(of_team) <= 8
                      /\ \A i \in of_team :
                            out.players[i].id
                                \in SelectedOf(Returned(last.calls, "fetch_team_roster", t))

\* A schedule of three games: both teams play in two of them, the third has
\* no away team and its home team plays nowhere else. The roster of one
\* team had nine rows, and its ninth player is not in the output.
C26_Witness ==
    /\ BuildDone
    /\ ~last.raised
    /\ Len(last.calls[1].ret.v) = 3
    /\ Len(last.ret.v.games) = 2
    /\ TeamsOf(last.ret.v.games) = {1, 2}
    /\ \E k \in RosterCalls(last.calls, 2) :
          /\ Len(last.calls[k].ret.v) = 9
          /\ last.calls[k].ret.v[9].id = 22
    /\ \E i \in 1..Len(last.ret.v.players) : last.ret.v.players[i].id = 21
    /\ \E i \in 1..Len(last.ret.v.players) : last.ret.v.players[i].id = 11

(***************************************************************************)
(* Claims about the API handlers, checked under SpecApi.                   *)
(***************************************************************************)
\* the aggregate stored less than 300 s before the clock t, if any
FreshAggregate(c, t) ==
    /\ "dashboard_data" \in DOMAIN c
    /\ t - c["dashboard_data"].timestamp < Seconds(300)

\* C13: a get_dashboard that finds an aggregate stored by an earlier
\* get_dashboard less than 300 s ago (no refresh since) returns that very
\* aggregate and calls neither build_dashboard_data nor a fetch function:
\* it makes no request, and no build is ever under way for it.
C13_AggregateIsCached ==
    /\ (last.op = "get_dashboard" /\ FreshAggregate(last.before, last.started)) =>
          /\ last.ret = last.before["dashboard_data"].data
          /\ last.src = "cache"
          /\ last.calls = <<>>
          /\ last.io = <<>>
          /\ cache = last.before
    /\ api.serving = "get_dashboard" => ~FreshAggregate(api.before, api.started)

\* 120 s after a get_dashboard built and stored an aggregate with players,
\* the next get_dashboard returned it.
C13_Witness ==
    /\ last.op = "get_dashboard"
    /\ FreshAggregate(last.before, last.started)
    /\ last.started = last.before["dashboard_data"].timestamp + Seconds(120)
    /\ last.ret = last.before["dashboard_data"].data
    /\ last.ret.v.players # <<>>
    /\ steps = 1

\* C19: get_player answers "not found" (404) for a player for whom neither
\* a season profile nor a game of history could be had.
C19_NoDataIsNotFound ==
    ( /\ last.op = "get_player"
      /\ Len(last.calls) = 3
      /\ last.calls[1].ret = PyDict(DefaultStats)
      /\ last.calls[2].ret = PyList(<<>>) )
    => last.ret.v.status = 404

\* the data stored under key was obtained no more than ttl seconds before
\* the operation completed last ended
ObtainedWithin(key, ttl) ==
    key \in DOMAIN written => last.ended - written[key].at <= Seconds(ttl)

\* C25: in the aggregate get_dashboard returns, the schedule was obtained
\* from the upstream no more than 120 s before, the roster of every player's
\* team no more than 3600 s, the season stats of every player no more than
\* 600 s and the recent games of every player no more than 300 s before.
C25_EachClassKeepsItsTtl ==
    (last.op = "get_dashboard" /\ ~last.raised) =>
        /\ last.ret.v.games # <<>> => ObtainedWithin("todays_games", 120)
        /\ \A i \in 1..Len(last.ret.v.players) :
              LET p == last.ret.v.players[i]
              IN  /\ ObtainedWithin(roster_key(p.team), 3600)
                  /\ ObtainedWithin(stats_key(p.id), 600)
                  /\ ObtainedWithin(last5_key(p.id), 300)

(***************************************************************************)
(* Claims about the cache under threads, checked under SpecRace.           *)
(***************************************************************************)
\* the entry was made by one set call for that key
MadeFor(key, entry) == [key |-> key, entry |-> entry] \in made

\* C12 as stated: when refresh_data produces its acknowledgement the cache
\* is empty and the rebuild of this refresh has issued no request.
C12_CacheEmptyAtAcknowledgement ==
    seen.op = "refresh_data" =>
        /\ seen.cache = <<>>
        /\ seen.started < seen.n

\* C12, amended: when refresh_data produces its acknowledgement, the
\* rebuild of this refresh has not begun (a build begins only once its
\* acknowledgement is out), and nothing of what the cache held when the
\* refresh began is left; the cache is empty unless a build of an earlier
\* refresh was still unfinished, whose sets may have stored since the clear.
C12_RefreshClearsAndDefersRebuild ==
    /\ tasks.started <= tasks.released
    /\ seen.op = "refresh_data" =>
          /\ seen.started < seen.n
          /\ \A key \in DOMAIN seen.cache :
                /\ MadeFor(key, seen.cache[key])
                /\ key \in DOMAIN seen.before => seen.cache[key] # seen.before[key]
          /\ seen.unfinished = 0 => seen.cache = <<>>

\* The second refresh cleared a cache that held an entry, and when it
\* acknowledged, the build of the first refresh had stored again while the
\* build of the second had not begun.
C12_Witness ==
    /\ seen.op = "refresh_data"
    /\ seen.n = 2
    /\ seen.started < seen.n
    /\ seen.before # <<>>
    /\ seen.cache # <<>>
    /\ seen.unfinished > 0

\* C16: whatever the interleaving of the gets and sets of the builds in
\* flight, every entry in a dict (so also the one left after several sets to
\* one key), every entry a get has read and every value a get returns is the
\* entry, value and timestamp together, that one set call made for that key.
C16_NoTornEntry ==
    /\ \A i \in 1..Len(dicts) : \A key \in DOMAIN dicts[i] : MadeFor(key, dicts[i][key])
    /\ (seen.op = "get" /\ seen.ret # PyNone) =>
          /\ MadeFor(seen.key, seen.entry)
          /\ seen.ret = seen.entry.data

\* Two callers missed the same key; one has stored its entry and a build is
\* about to store its own, made earlier, over it.
C16_Witness ==
    \E w \in Workers :
        /\ th[w].pc = "set_store"
        /\ KeyOf(w) \in DOMAIN dicts[self_cache]
        /\ dicts[self_cache][KeyOf(w)] # th[w].entry
        /\ th[w].entry.timestamp < dicts[self_cache][KeyOf(w)].timestamp

\* C17: a get of a build in flight that races with the clear of
\* refresh_data completes normally and returns None or a value set for
\* its key.
C17_GetRacingClearIsSafe ==
    seen.op = "get" =>
        /\ ~seen.raised
        /\ seen.ret = PyNone \/ \E e \in made : e.key = seen.key /\ e.entry.data = seen.ret

(***************************************************************************)
(* Claims about TrendAnalyzer, checked under SpecTrend.                    *)
(***************************************************************************)
\* the sum of the values for key of the first n records of h, or of all
RECURSIVE Total(_, _, _)
Total(h, key, n) ==
    IF n = 0 \/ h = <<>> THEN 0 ELSE h[1][key] + Total(Tail(h), key, n - 1)

Analysed == trend.result # NoResult

\* C22: analyze yields neutral for every history of fewer than 3 records,
\* and when the sum (so the average) of the up to 10 baseline records is 0;
\* otherwise hot when the average of the first 3 records is more than 1.15
\* times the average of the first up to 10, cold when it is less than 0.85
\* times that average, and stable in between: never neutral.
C22_TrendClassification ==
    Analysed =>
        LET h == trend.history
            n == IF Len(h) < 10 THEN Len(h) ELSE 10
            s3 == Total(h, trend.statKey, 3)
            sB == Total(h, trend.statKey, 10)
        IN  trend.result.trend =
               IF Len(h) < 3 \/ sB = 0 THEN "neutral"
               ELSE IF 100 * s3 * n > 115 * 3 * sB THEN "hot"
               ELSE IF 100 * s3 * n < 85 * 3 * sB THEN "cold"
               ELSE "stable"

\* A history of eleven games is stable on its first ten; its oldest game,
\* had it counted for the baseline, would have made it hot.
C22_Witness ==
    /\ Analysed
    /\ Len(trend.history) = 11
    /\ trend.result.trend = "stable"
    /\ 100 * Total(trend.history, trend.statKey, 3) * 11
          > 115 * 3 * Total(trend.history, trend.statKey, 11)

====
